---------------------------- MODULE Spec2Model ----------------------------
(***************************************************************************)
(* A model of packages/simple-xcm/simplexcm.ts (class SimpleXcm, its       *)
(* PalletXcmBackend and prepareTransferParams) and of the asset            *)
(* canonicalizer exported by packages/xcm-util/asset-sort.                 *)
(*                                                                         *)
(* Values that can throw are modelled as records [ok |-> TRUE, value |-> v]*)
(* and [ok |-> FALSE, error |-> e].  Optional registry answers are records *)
(* [found |-> TRUE, value |-> v] and [found |-> FALSE].                    *)
(***************************************************************************)
EXTENDS Integers, Sequences, FiniteSets, TLC

VARIABLES
    registry,     \* SimpleXcm.registry: the named locations and currencies
    chainInfo,    \* SimpleXcm.chainInfo and what the connected api exposes
    xcmVersion,   \* SimpleXcm.xcmVersion
    pc,           \* position of the one composeTransfer call
    error,        \* the condition composeTransfer failed with, "" if none
    backend,      \* the transfer backend #transferBackend selected
    request,      \* the TransferParams handed to composeTransfer
    prepared,     \* the PreparedTransferParams (feeAnyAssetRef is assets[feeAssetIndex])
    prepared0,    \* history: prepared as prepareTransferParams returned it
    encoded,      \* destination and beneficiary converted after prepareTransferParams
    calls,        \* history: estimator calls issued by the fee loop
    answers,      \* history: the shortfalls and the fee value the loop was answered with
    lastResp,     \* the estimator's last raw answer
    lastRes,      \* what tryEstimateExtrinsicXcmFees made of it
    netLog,       \* history: the network interactions issued, in order
    tx,           \* the transaction composeTransfer returns
    op,           \* library surface: the operation last applied
    args,         \* library surface: its arguments
    result        \* library surface: its result

vars == <<registry, chainInfo, xcmVersion, pc, error, backend, request,
          prepared, prepared0, encoded, calls, answers, lastResp, lastRes,
          netLog, tx, op, args, result>>

composeVars == <<pc, error, backend, request, prepared, prepared0, encoded,
                 calls, answers, lastResp, lastRes, netLog, tx>>

libVars == <<op, args, result>>

-----------------------------------------------------------------------------
(* Bounds of the model *)

\* interior locations drawn as inputs have at most MaxInterior junctions
MaxInterior == 2
\* relative locations drawn as inputs ascend at most MaxParents levels
MaxParents == 2
\* asset lists handed to the canonicalizer have at most MaxSortLen entries
MaxSortLen == 3
\* fungible amounts of input assets are 1..MaxAmount
MaxAmount == 2
\* amount strings are enumerated up to MaxAmountLen characters
MaxAmountLen == 4
\* a transfer request lists at most MaxAssets assets
MaxAssets == 2
\* the fee loop is followed for at most MaxCalls estimator calls
MaxCalls == 3

Ok(v) == [ok |-> TRUE, value |-> v]

Err(e) == [ok |-> FALSE, error |-> e]

Found(v) == [found |-> TRUE, value |-> v]

Absent == [found |-> FALSE]

-----------------------------------------------------------------------------
(* Locations *)

\* junction payloads (parachain ids, pallet instances, ...)
Junctions == {1, 2}

RECURSIVE SeqsUpTo(_, _)
SeqsUpTo(S, n) ==
    IF n = 0 THEN {<<>>}
    ELSE LET shorter == SeqsUpTo(S, n - 1)
         IN  shorter \cup {Append(s, x) : s \in {t \in shorter : Len(t) = n - 1}, x \in S}

InteriorLocations == SeqsUpTo(Junctions, MaxInterior)

location(parents, interior) == [parents |-> parents, interior |-> interior]

Locations == {location(p, i) : p \in 0..MaxParents, i \in InteriorLocations}

\* the number of leading junctions two interior locations share
RECURSIVE CommonPrefixLen(_, _)
CommonPrefixLen(a, b) ==
    IF a = <<>> \/ b = <<>> \/ Head(a) # Head(b) THEN 0
    ELSE 1 + CommonPrefixLen(Tail(a), Tail(b))

\* ascend to the common ancestor of prefix and loc, then descend to loc
locationRelativeToPrefix(loc, prefix) ==
    LET common == CommonPrefixLen(loc, prefix)
    IN  location(Len(prefix) - common, SubSeq(loc, common + 1, Len(loc)))

\* drop the last `parents` junctions of the context, append the interior
relativeLocationToUniversal(relativeLocation, context) ==
    IF relativeLocation.parents > Len(context)
    THEN Err("ascends above the universal root")
    ELSE Ok(SubSeq(context, 1, Len(context) - relativeLocation.parents)
            \o relativeLocation.interior)

\* structural validation of a lookup that has a parents field
sanitizeLookup(lookup) == lookup.parents >= 0

-----------------------------------------------------------------------------
(* Lookups and the registry *)

\* A lookup is a name, a structure with a parents field, or a bare interior
\* path; `kind` stands for what typeof and the 'parents' in test tell apart.
NameLookup(n) == [kind |-> "name", name |-> n]

LocationLookup(l) == [kind |-> "location", parents |-> l.parents, interior |-> l.interior]

InteriorLookup(i) == [kind |-> "interior", interior |-> i]

Names == {"Acala", "Moonbeam", "Unknown"}

Cond(c, k) == [cond |-> c, key |-> k]

NoError == Cond("", "")

\* Registry.universalLocation(name)
universalLocation(name) == registry.universal[name]

\* Registry.relativeLocation(name)
relativeLocation(name) == registry.relative[name]

\* structural validation of a bare interior path
sanitizeInterior(interior) == \A k \in 1..Len(interior) : interior[k] > 0

\* mutant: the relative locations are consulted before the universal ones
resolveRelativeLocation_RelativeFirst(lookup) ==
    IF lookup.kind = "name"
    THEN IF relativeLocation(lookup.name).found
         THEN Ok(relativeLocation(lookup.name).value)
         ELSE IF universalLocation(lookup.name).found
         THEN Ok(locationRelativeToPrefix(universalLocation(lookup.name).value,
                                          chainInfo.universalLocation))
         ELSE Err(Cond("unknown named location", lookup.name))
    ELSE IF lookup.kind = "location"
    THEN IF sanitizeLookup(lookup)
         THEN Ok(location(lookup.parents, lookup.interior))
         ELSE Err(Cond("malformed lookup", ""))
    ELSE IF sanitizeInterior(lookup.interior)
         THEN Ok(locationRelativeToPrefix(lookup.interior, chainInfo.universalLocation))
         ELSE Err(Cond("malformed lookup", ""))

resolveRelativeLocation(lookup) ==
    IF lookup.kind = "name"
    THEN IF universalLocation(lookup.name).found
         THEN Ok(locationRelativeToPrefix(universalLocation(lookup.name).value,
                                          chainInfo.universalLocation))
         ELSE IF relativeLocation(lookup.name).found
         THEN Ok(relativeLocation(lookup.name).value)
         ELSE Err(Cond("unknown named location", lookup.name))
    ELSE IF lookup.kind = "location"
    THEN IF sanitizeLookup(lookup)
         THEN Ok(location(lookup.parents, lookup.interior))
         ELSE Err(Cond("malformed lookup", ""))
    ELSE IF sanitizeInterior(lookup.interior)
         THEN Ok(locationRelativeToPrefix(lookup.interior, chainInfo.universalLocation))
         ELSE Err(Cond("malformed lookup", ""))

resolveUniversalLocation(lookup) ==
    IF lookup.kind = "name"
    THEN IF universalLocation(lookup.name).found
         THEN Ok(universalLocation(lookup.name).value)
         ELSE IF relativeLocation(lookup.name).found
         THEN LET u == relativeLocationToUniversal(relativeLocation(lookup.name).value,
                                                   chainInfo.universalLocation)
              IN  IF u.ok THEN u ELSE Err(Cond(u.error, ""))
         ELSE Err(Cond("unknown named location", lookup.name))
    ELSE IF sanitizeInterior(lookup.interior)
         THEN Ok(lookup.interior)
         ELSE Err(Cond("malformed lookup", ""))

-----------------------------------------------------------------------------
(* Comparator and canonicalizer (xcm-util/asset-sort) *)

fungible(amount) == [kind |-> "fungible", amount |-> amount]

nonFungible(instance) == [kind |-> "nonFungible", instance |-> instance]

asset(id, fun) == [id |-> id, fun |-> fun]

\* numeric ascending on the payload
compareJunction(a, b) == IF a < b THEN -1 ELSE IF a > b THEN 1 ELSE 0

\* lexicographic over the junctions, a proper prefix first
RECURSIVE compareInteriorLocation(_, _)
compareInteriorLocation(a, b) ==
    IF a = <<>> /\ b = <<>> THEN 0
    ELSE IF a = <<>> THEN -1
    ELSE IF b = <<>> THEN 1
    ELSE LET c == compareJunction(Head(a), Head(b))
         IN  IF c # 0 THEN c ELSE compareInteriorLocation(Tail(a), Tail(b))

\* parents ascending, then the interior
compareLocation(a, b) ==
    IF a.parents < b.parents THEN -1
    ELSE IF a.parents > b.parents THEN 1
    ELSE compareInteriorLocation(a.interior, b.interior)

compareAssetId(a, b) == compareLocation(a, b)

\* the id is the only sort key
compareAnyAsset(a, b) == compareAssetId(a.id, b.id)

\* x goes behind every entry that does not compare greater: a stable insertion
RECURSIVE InsertStable(_, _)
InsertStable(sorted, x) ==
    IF sorted = <<>> THEN <<x>>
    ELSE IF compareAnyAsset(Head(sorted), x) <= 0
    THEN <<Head(sorted)>> \o InsertStable(Tail(sorted), x)
    ELSE <<x>> \o sorted

RECURSIVE StableSort(_)
StableSort(assets) ==
    IF assets = <<>> THEN <<>>
    ELSE InsertStable(StableSort(SubSeq(assets, 1, Len(assets) - 1)),
                      assets[Len(assets)])

\* mutant: of two fungible entries sharing an id the later one replaces the earlier
MergeInto_KeepLast(acc, cur) ==
    IF ~acc.ok THEN acc
    ELSE IF acc.value = <<>> THEN Ok(<<cur>>)
    ELSE LET n == Len(acc.value)
             last == acc.value[n]
         IN  IF compareAssetId(last.id, cur.id) # 0 THEN Ok(Append(acc.value, cur))
             ELSE IF last.fun.kind = "fungible" /\ cur.fun.kind = "fungible"
             THEN Ok([acc.value EXCEPT ![n].fun.amount = cur.fun.amount])
             ELSE IF last.fun.kind # cur.fun.kind
             THEN Err(Cond("conflicting fungibility", ""))
             ELSE IF last.fun.instance = cur.fun.instance THEN acc
             ELSE Ok(Append(acc.value, cur))

\* one entry of the sorted vector merged into the deduplicated prefix `acc`
MergeInto(acc, cur) ==
    IF ~acc.ok THEN acc
    ELSE IF acc.value = <<>> THEN Ok(<<cur>>)
    ELSE LET n == Len(acc.value)
             last == acc.value[n]
         IN  IF compareAssetId(last.id, cur.id) # 0 THEN Ok(Append(acc.value, cur))
             ELSE IF last.fun.kind = "fungible" /\ cur.fun.kind = "fungible"
             THEN Ok([acc.value EXCEPT ![n].fun.amount = @ + cur.fun.amount])
             ELSE IF last.fun.kind # cur.fun.kind
             THEN Err(Cond("conflicting fungibility", ""))
             ELSE IF last.fun.instance = cur.fun.instance THEN acc
             ELSE Ok(Append(acc.value, cur))

RECURSIVE Deduplicate(_)
Deduplicate(sorted) ==
    IF sorted = <<>> THEN Ok(<<>>)
    ELSE MergeInto(Deduplicate(SubSeq(sorted, 1, Len(sorted) - 1)),
                   sorted[Len(sorted)])

sortAndDeduplicateAssets(assets) == Deduplicate(StableSort(assets))

-----------------------------------------------------------------------------
(* Amount conversion *)

\* A string is a sequence of one-character strings; a bigint is the sequence
\* of its decimal digits, most significant first, <<0>> for zero.
DigitChars == {"0", "1", "2", "3", "4", "5", "6", "7", "8", "9"}

DigitValue(c) ==
    CASE c = "0" -> 0 [] c = "1" -> 1 [] c = "2" -> 2 [] c = "3" -> 3
      [] c = "4" -> 4 [] c = "5" -> 5 [] c = "6" -> 6 [] c = "7" -> 7
      [] c = "8" -> 8 [] c = "9" -> 9

\* \d+
MatchesDigits(s) == Len(s) >= 1 /\ \A k \in 1..Len(s) : s[k] \in DigitChars

\* 0 | [1-9]\d*
MatchesIntegerPart(s) ==
    \/ s = <<"0">>
    \/ Len(s) >= 1 /\ s[1] \in DigitChars \ {"0"}
       /\ \A k \in 2..Len(s) : s[k] \in DigitChars

\* /^(0(\.\d+)?|[1-9]\d*(\.\d+)?)$/
numberRegEx(amount) ==
    \/ MatchesIntegerPart(amount)
    \/ \E i \in 1..Len(amount) :
          /\ amount[i] = "."
          /\ MatchesIntegerPart(SubSeq(amount, 1, i - 1))
          /\ MatchesDigits(SubSeq(amount, i + 1, Len(amount)))

\* the positions of the dots of s
DotsOf(s) == {k \in 1..Len(s) : s[k] = "."}

Least(S) == CHOOSE x \in S : \A y \in S : x <= y

\* const [integerPart, decimalPart = ''] = amount.split('.')
SplitAtDot(amount) ==
    IF DotsOf(amount) = {} THEN <<amount, <<>>>>
    ELSE LET d1 == Least(DotsOf(amount))
             rest == DotsOf(amount) \ {d1}
             d2 == IF rest = {} THEN Len(amount) + 1 ELSE Least(rest)
         IN  <<SubSeq(amount, 1, d1 - 1), SubSeq(amount, d1 + 1, d2 - 1)>>

Zeros(n) == [k \in 1..n |-> "0"]

\* String.prototype.padStart(targetLength, '0')
padEnd_AtStart(s, targetLength) ==
    IF Len(s) >= targetLength THEN s ELSE Zeros(targetLength - Len(s)) \o s

\* String.prototype.padEnd(targetLength, '0')
padEnd(s, targetLength) ==
    IF Len(s) >= targetLength THEN s ELSE s \o Zeros(targetLength - Len(s))

RECURSIVE StripLeadingZeros(_)
StripLeadingZeros(ds) ==
    IF Len(ds) > 1 /\ Head(ds) = 0 THEN StripLeadingZeros(Tail(ds)) ELSE ds

\* BigInt(s) of a string of decimal digits; BigInt('') is 0n
BigInt(s) ==
    IF s = <<>> THEN <<0>>
    ELSE StripLeadingZeros([k \in 1..Len(s) |-> DigitValue(s[k])])

\* the largest number of decimals a currency may have
MaxDecimals == 38

\* A number is [int |-> whether it is an integer, num |-> its integer part].
isSafeInteger(n) == n.int

\* mutant: the decimal part is padded in front
convertFungibleAmount_PadStart(amount, decimals) ==
    IF ~numberRegEx(amount)
    THEN Err(Cond("invalid amount format", ""))
    ELSE LET parts == SplitAtDot(amount)
             integerPart == parts[1]
             decimalPart == parts[2]
         IN  IF ~isSafeInteger(decimals) \/ decimals.num < 0 \/ decimals.num > MaxDecimals
             THEN Err(Cond("decimals value is incorrect", ""))
             ELSE LET paddedDecimalPart == padEnd_AtStart(decimalPart, decimals.num)
                  IN  IF Len(paddedDecimalPart) > decimals.num
                      THEN Err(Cond("decimal part length is greater than the currency decimals", ""))
                      ELSE Ok(BigInt(integerPart \o paddedDecimalPart))

\* SimpleXcm.#convertFungibleAmount
convertFungibleAmount(amount, decimals) ==
    IF ~numberRegEx(amount)
    THEN Err(Cond("invalid amount format", ""))
    ELSE LET parts == SplitAtDot(amount)
             integerPart == parts[1]
             decimalPart == parts[2]
         IN  IF ~isSafeInteger(decimals) \/ decimals.num < 0 \/ decimals.num > MaxDecimals
             THEN Err(Cond("decimals value is incorrect", ""))
             ELSE LET paddedDecimalPart == padEnd(decimalPart, decimals.num)
                  IN  IF Len(paddedDecimalPart) > decimals.num
                      THEN Err(Cond("decimal part length is greater than the currency decimals", ""))
                      ELSE Ok(BigInt(integerPart \o paddedDecimalPart))

\* Registry.currencyInfoBySymbol(symbol)
currencyInfoBySymbol(symbol) ==
    IF \E c \in registry.currencies : c.symbol = symbol
    THEN Ok(CHOOSE c \in registry.currencies : c.symbol = symbol)
    ELSE Err(Cond("unknown currency", symbol))

\* Registry.currencyInfoByUniversalLocation(universalLocation)
currencyInfoByUniversalLocation(loc) ==
    IF \E c \in registry.currencies : c.universalLocation = loc
    THEN Ok(CHOOSE c \in registry.currencies : c.universalLocation = loc)
    ELSE Err(Cond("unknown currency", ""))

\* the decimals adjustedFungible looks up for an asset id
DecimalsOf(assetId) ==
    IF assetId.kind = "name"
    THEN currencyInfoBySymbol(assetId.name)
    ELSE IF ~sanitizeLookup(assetId) THEN Err(Cond("malformed lookup", ""))
    ELSE LET u == relativeLocationToUniversal(assetId, chainInfo.universalLocation)
         IN  IF u.ok THEN currencyInfoByUniversalLocation(u.value)
             ELSE Err(Cond(u.error, ""))

adjustedFungible(assetId, amount) ==
    LET info == DecimalsOf(assetId)
    IN  IF ~info.ok THEN info
        ELSE LET value == convertFungibleAmount(amount, info.value.decimals)
             IN  IF ~value.ok THEN value
                 ELSE Ok([id |-> assetId, fun |-> fungible(value.value)])

-----------------------------------------------------------------------------
(* The connected instance *)

\* what SimpleXcm.connect leaves in chainInfo, api and estimator
ChainInfoOf(own, transferAssets, pallets, locationToAccountApi, maxVersion) ==
    [name |-> "Chain", universalLocation |-> own,
     hasTransferAssets |-> transferAssets, pallets |-> pallets,
     hasLocationToAccountApi |-> locationToAccountApi,
     estimatorXcmVersion |-> maxVersion]

Number(n) == [int |-> TRUE, num |-> n]

Currency(decimals) == [symbol |-> "DOT", universalLocation |-> <<1>>, decimals |-> decimals]

RegistryOf(acalaUniversal, acalaRelative, decimals) ==
    [universal |-> [n \in Names |-> IF n = "Acala" THEN acalaUniversal ELSE Absent],
     relative |-> [n \in Names |->
                     IF n = "Acala" THEN acalaRelative
                     ELSE IF n = "Moonbeam" THEN Found(location(1, <<2>>))
                     ELSE Absent],
     currencies |-> {Currency(decimals)}]

DefaultRegistry == RegistryOf(Found(<<1>>), Absent, Number(10))

DefaultChainInfo == ChainInfoOf(<<1, 1>>, TRUE, {"PolkadotXcm"}, TRUE, 4)

None == [kind |-> "none"]

\* no composeTransfer call has been made
ComposeIdle ==
    /\ pc = "idle"
    /\ error = NoError
    /\ backend = "none"
    /\ request = None
    /\ prepared = None
    /\ prepared0 = None
    /\ encoded = None
    /\ calls = 0
    /\ answers = <<>>
    /\ lastResp = None
    /\ lastRes = None
    /\ netLog = <<>>
    /\ tx = None

LibIdle == op = "none" /\ args = None /\ result = None

-----------------------------------------------------------------------------
(* The library surface: resolution *)

BadLocation == location(-1, <<>>)

BadInterior == <<0>>

OptionalOf(S) == {Absent} \cup {Found(v) : v \in S}

RelativeLookups ==
    {NameLookup(n) : n \in Names}
      \cup {LocationLookup(l) : l \in {location(0, <<>>), location(1, <<2>>), BadLocation}}
      \cup {InteriorLookup(i) : i \in {<<>>, <<1, 2>>, BadInterior}}

UniversalLookups ==
    {NameLookup(n) : n \in Names}
      \cup {InteriorLookup(i) : i \in {<<>>, <<1, 2>>, BadInterior}}

\* the universal locations the connected chain may have
OwnLocations == {<<>>, <<1>>, <<1, 1>>, <<1, 2>>}

InitResolve ==
    /\ \E u \in OptionalOf(InteriorLocations), r \in OptionalOf(Locations) :
          registry = RegistryOf(u, r, Number(10))
    /\ \E own \in OwnLocations :
          chainInfo = ChainInfoOf(own, TRUE, {"PolkadotXcm"}, TRUE, 4)
    /\ xcmVersion = 4
    /\ ComposeIdle
    /\ LibIdle

ResolveRelative ==
    \E lookup \in RelativeLookups :
        /\ op = "none"
        /\ op' = "resolveRelativeLocation"
        /\ args' = lookup
        /\ result' = resolveRelativeLocation(lookup)
        /\ UNCHANGED <<registry, chainInfo, xcmVersion, composeVars>>

ResolveUniversal ==
    \E lookup \in UniversalLookups :
        /\ op = "none"
        /\ op' = "resolveUniversalLocation"
        /\ args' = lookup
        /\ result' = resolveUniversalLocation(lookup)
        /\ UNCHANGED <<registry, chainInfo, xcmVersion, composeVars>>

NextResolve == ResolveRelative \/ ResolveUniversal

SpecResolve == InitResolve /\ [][NextResolve]_vars

-----------------------------------------------------------------------------
(* The library surface: the canonicalizer *)

SortIds == {location(0, <<>>), location(0, <<1>>), location(0, <<1, 2>>), location(1, <<>>)}

Instances == {1, 2}

Funs == {fungible(a) : a \in 1..MaxAmount} \cup {nonFungible(i) : i \in Instances}

SortAssets == {asset(id, fun) : id \in SortIds, fun \in Funs}

InitSort ==
    /\ registry = DefaultRegistry
    /\ chainInfo = DefaultChainInfo
    /\ xcmVersion = 4
    /\ ComposeIdle
    /\ op = "none"
    /\ args \in SeqsUpTo(SortAssets, MaxSortLen)
    /\ result = None

\* sortAndDeduplicateAssets applied to the list
SortList ==
    /\ op = "none"
    /\ op' = "sortAndDeduplicateAssets"
    /\ result' = sortAndDeduplicateAssets(args)
    /\ UNCHANGED <<registry, chainInfo, xcmVersion, composeVars, args>>

\* two neighbours of the list swapped
Swap(list, i) == [list EXCEPT ![i] = list[i + 1], ![i + 1] = list[i]]

\* sortAndDeduplicateAssets applied to a permutation of the list
SortPermuted ==
    /\ op = "sortAndDeduplicateAssets"
    /\ \E i \in 1..(Len(args) - 1) :
          /\ args' = Swap(args, i)
          /\ result' = sortAndDeduplicateAssets(args')
    /\ UNCHANGED <<registry, chainInfo, xcmVersion, composeVars, op>>

NextSort == SortList \/ SortPermuted

SpecSort == InitSort /\ [][NextSort]_vars

-----------------------------------------------------------------------------
(* The library surface: amounts *)

AmountChars == {"0", "1", ".", "x"}

Str_1_5 == <<"1", ".", "5">>

Str_023 == <<"0", "2", "3">>

Str_1_23456789012 == <<"1", ".", "2", "3", "4", "5", "6", "7", "8", "9", "0", "1", "2">>

AmountInputs ==
    SeqsUpTo(AmountChars, MaxAmountLen) \cup {Str_1_5, Str_023, Str_1_23456789012}

DecimalsInputs ==
    {Number(n) : n \in {-1, 0, 1, 2, 3, 10, 11, 38, 39}} \cup {[int |-> FALSE, num |-> 2]}

AssetIdInputs ==
    {NameLookup("DOT"), NameLookup("KSM"),
     LocationLookup(location(1, <<>>)), LocationLookup(location(0, <<>>))}

InitAmount ==
    /\ \E d \in DecimalsInputs : registry = RegistryOf(Found(<<1>>), Absent, d)
    /\ chainInfo = DefaultChainInfo
    /\ xcmVersion = 4
    /\ ComposeIdle
    /\ LibIdle

AdjustedFungible ==
    \E assetId \in AssetIdInputs, amount \in AmountInputs :
        /\ op = "none"
        /\ op' = "adjustedFungible"
        /\ args' = [assetId |-> assetId, amount |-> amount]
        /\ result' = adjustedFungible(assetId, amount)
        /\ UNCHANGED <<registry, chainInfo, xcmVersion, composeVars>>

NextAmount == AdjustedFungible

SpecAmount == InitAmount /\ [][NextAmount]_vars

-----------------------------------------------------------------------------
(* Version conversion and fee-asset lookup (xcm-util, xcm-estimate) *)

convertLocationVersion(version, loc) == [version |-> version, location |-> loc]

convertAssetIdVersion(version, id) == [version |-> version, id |-> id]

\* canonicalization, then the collection tagged with the version
prepareAssetsForEncoding(version, assets) ==
    LET canonical == sortAndDeduplicateAssets(assets)
    IN  IF canonical.ok
        THEN Ok([version |-> version, assets |-> canonical.value])
        ELSE canonical

\* the first entry of the vector whose id equals the fee asset's: a reference
\* to the entry (its place in the vector) and its 0-based index
findFeeAssetById(feeAssetId, versionedAssets) ==
    LET matches == {i \in 1..Len(versionedAssets.assets) :
                       compareAssetId(versionedAssets.assets[i].id, feeAssetId.id) = 0}
    IN  IF matches = {} THEN Absent
        ELSE Found([ref |-> Least(matches), index |-> Least(matches) - 1])

\* palletApiTxName: the runtime name with its first letter in lower case
palletApiTxName(runtimeName) ==
    CASE runtimeName = "PolkadotXcm" -> "polkadotXcm"
      [] runtimeName = "XTokens" -> "xTokens"
      [] OTHER -> runtimeName

-----------------------------------------------------------------------------
(* composeTransfer *)

\* the switch over the pallet names has the default case only
AlternateBackendOf(palletName) == Absent

\* SimpleXcm.#transferBackend
transferBackend ==
    IF chainInfo.hasTransferAssets THEN Ok("PalletXcmBackend")
    ELSE IF \E p \in chainInfo.pallets : AlternateBackendOf(palletApiTxName(p)).found
    THEN Ok((CHOOSE p \in chainInfo.pallets :
                AlternateBackendOf(palletApiTxName(p)).found))
    ELSE Err(Cond("No known XCM transfer backend pallet is found", chainInfo.name))

\* SimpleXcm.locationToAccountId up to its runtime call: the versioned
\* location handed to locationToAccountApi.convertLocation, or what it throws
locationToAccountIdCall(lookup) ==
    IF ~chainInfo.hasLocationToAccountApi
    THEN Err(Cond("doesn't implement locationToAccount Runtime API", chainInfo.name))
    ELSE IF lookup.kind = "name"
    THEN LET accountLocation == resolveRelativeLocation(lookup)
         IN  IF ~accountLocation.ok THEN accountLocation
             ELSE IF ~sanitizeLookup(accountLocation.value)
             THEN Err(Cond("malformed lookup", ""))
             ELSE Ok(convertLocationVersion(4, accountLocation.value))
    ELSE IF ~sanitizeLookup(lookup) THEN Err(Cond("malformed lookup", ""))
    ELSE Ok(convertLocationVersion(4, location(lookup.parents, lookup.interior)))

\* structural validation of one lookup, without resolution
WellFormedLookup(lookup) ==
    IF lookup.kind = "name" THEN TRUE
    ELSE IF lookup.kind = "location" THEN sanitizeLookup(lookup)
    ELSE sanitizeInterior(lookup.interior)

\* main-utils sanitizeTransferParams: a non-empty asset list and well-formed
\* destination, beneficiary, fee asset and assets
sanitizeTransferParams(transferParams) ==
    /\ Len(transferParams.assets) > 0
    /\ WellFormedLookup(transferParams.destination)
    /\ WellFormedLookup(transferParams.beneficiary)
    /\ WellFormedLookup(transferParams.feeAssetId)
    /\ \A i \in 1..Len(transferParams.assets) :
          WellFormedLookup(transferParams.assets[i].id)

\* SimpleXcm.resolveRelativeAsset
resolveRelativeAsset(lookup) ==
    LET id == resolveRelativeLocation(lookup.id)
    IN  IF id.ok THEN Ok(asset(id.value, lookup.fun)) ELSE id

\* transferParams.assets.map(asset => simpleXcm.resolveRelativeAsset(asset))
ResolveAssets(assets) ==
    LET each == [i \in 1..Len(assets) |-> resolveRelativeAsset(assets[i])]
        failing == {i \in 1..Len(assets) : ~each[i].ok}
    IN  IF failing = {} THEN Ok([i \in 1..Len(assets) |-> each[i].value])
        ELSE each[Least(failing)]

\* mutant: the index counts from one
PreparedOf_IndexFromOne(origin, assets, feeAssetId, feeAssetResult, destination, beneficiary) ==
    IF ~feeAssetResult.found
    THEN Err(Cond("the fee asset isn't part of the transfer", chainInfo.name))
    ELSE Ok([origin |-> origin,
             assets |-> assets,
             feeAssetId |-> feeAssetId,
             feeAssetIndex |-> feeAssetResult.value.index + 1,
             feeAnyAssetRef |-> feeAssetResult.value.ref,
             destination |-> destination,
             beneficiary |-> beneficiary])

\* what prepareTransferParams returns once the fee asset is looked up
PreparedOf(origin, assets, feeAssetId, feeAssetResult, destination, beneficiary) ==
    IF ~feeAssetResult.found
    THEN Err(Cond("the fee asset isn't part of the transfer", chainInfo.name))
    ELSE Ok([origin |-> origin,
             assets |-> assets,
             feeAssetId |-> feeAssetId,
             feeAssetIndex |-> feeAssetResult.value.index,
             feeAnyAssetRef |-> feeAssetResult.value.ref,
             destination |-> destination,
             beneficiary |-> beneficiary])

\* prepareTransferParams from sanitizeTransferParams on, the origin settled
prepareTransferParams(transferParams, origin) ==
    IF ~sanitizeTransferParams(transferParams)
    THEN Err(Cond("malformed transfer parameters", ""))
    ELSE
    LET destination == resolveRelativeLocation(transferParams.destination)
        beneficiary == resolveRelativeLocation(transferParams.beneficiary)
        feeAssetId == resolveRelativeLocation(transferParams.feeAssetId)
        resolvedAssets == ResolveAssets(transferParams.assets)
    IN  IF ~destination.ok THEN destination
        ELSE IF ~beneficiary.ok THEN beneficiary
        ELSE IF ~feeAssetId.ok THEN feeAssetId
        ELSE IF ~resolvedAssets.ok THEN resolvedAssets
        ELSE
        LET assets == prepareAssetsForEncoding(xcmVersion, resolvedAssets.value)
        IN  IF ~assets.ok THEN assets
            ELSE PreparedOf(origin, assets.value, feeAssetId.value,
                            findFeeAssetById(
                                convertAssetIdVersion(xcmVersion, feeAssetId.value),
                                assets.value),
                            destination.value, beneficiary.value)

\* palletXcm.transferAssets(destination, beneficiary, assets, feeAssetIndex, 'Unlimited')
transferAssets(destination, beneficiary, assets, feeAssetIndex) ==
    [kind |-> "transferAssets", destination |-> destination,
     beneficiary |-> beneficiary, assets |-> assets,
     feeAssetItem |-> feeAssetIndex, weightLimit |-> "Unlimited"]

\* ---- the estimator's answers ----

TooExpensiveFeeError(missingAmount) == [tooExpensive |-> TRUE, missingAmount |-> missingAmount]

FatalError == [tooExpensive |-> FALSE, missingAmount |-> 0]

FeeEstimationErrors(errors) == [kind |-> "FeeEstimationErrors", errors |-> errors]

\* the aggregates the estimator throws: empty, of shortfalls only, of a
\* shortfall and another error, of another error only
Aggregates ==
    {<<>>,
     <<TooExpensiveFeeError(2)>>,
     <<TooExpensiveFeeError(3)>>,
     <<TooExpensiveFeeError(2), TooExpensiveFeeError(3)>>,
     <<TooExpensiveFeeError(2), FatalError>>,
     <<FatalError>>}

EstimatorResponses ==
    {[kind |-> "value", value |-> v] : v \in {0, 1}}
      \cup {FeeEstimationErrors(e) : e \in Aggregates}
      \cup {[kind |-> "otherError"]}

RECURSIVE SumMissing(_)
SumMissing(errors) ==
    IF errors = <<>> THEN 0
    ELSE Head(errors).missingAmount + SumMissing(Tail(errors))

IsTooExpensive(e) == e.tooExpensive

\* SimpleXcm.tryEstimateExtrinsicXcmFees, given what estimateExtrinsicFees did
tryEstimateExtrinsicXcmFees(response) ==
    IF response.kind = "value" THEN [kind |-> "value", value |-> response.value]
    ELSE IF response.kind = "FeeEstimationErrors"
            /\ Len(SelectSeq(response.errors, IsTooExpensive)) > 0
    THEN [kind |-> "error",
          missingAmount |-> SumMissing(SelectSeq(response.errors, IsTooExpensive))]
    ELSE [kind |-> "throw", thrown |-> response]

\* ---- the requests ----

Account(name) == [kind |-> "origin", signed |-> name]

OriginInputs == {NameLookup("Acala"), NameLookup("Unknown"), Account("Alice")}

AssetLookupInputs ==
    {[id |-> NameLookup("Acala"), fun |-> fungible(1)],
     [id |-> LocationLookup(location(0, <<>>)), fun |-> fungible(1)],
     [id |-> LocationLookup(location(0, <<>>)), fun |-> nonFungible(1)],
     [id |-> LocationLookup(BadLocation), fun |-> fungible(1)]}

FeeAssetIdInputs ==
    {NameLookup("Acala"), LocationLookup(location(0, <<>>)),
     LocationLookup(location(0, <<2>>))}

DestinationInputs == {NameLookup("Moonbeam"), LocationLookup(BadLocation)}

BeneficiaryInputs == {InteriorLookup(<<1, 1, 2>>), InteriorLookup(BadInterior)}

TransferParams ==
    [origin : OriginInputs,
     assets : SeqsUpTo(AssetLookupInputs, MaxAssets),
     feeAssetId : FeeAssetIdInputs,
     destination : DestinationInputs,
     beneficiary : BeneficiaryInputs]

ChainInfoInputs ==
    {ChainInfoOf(<<1, 1>>, TRUE, {"PolkadotXcm"}, TRUE, 4),
     ChainInfoOf(<<1, 1>>, TRUE, {"PolkadotXcm"}, FALSE, 4),
     ChainInfoOf(<<1, 1>>, TRUE, {"PolkadotXcm", "XTokens"}, TRUE, 4),
     ChainInfoOf(<<1, 1>>, FALSE, {"PolkadotXcm"}, TRUE, 4),
     ChainInfoOf(<<1, 1>>, FALSE, {"PolkadotXcm", "XTokens"}, TRUE, 4)}

Init ==
    /\ registry = DefaultRegistry
    /\ chainInfo \in ChainInfoInputs
    /\ xcmVersion = chainInfo.estimatorXcmVersion
    /\ ComposeIdle
    /\ LibIdle

\* prepareTransferParams runs to its end: the promise composeTransfer awaits
\* resolves with the prepared parameters or rejects
FinishPrepare(transferParams, origin) ==
    LET p == prepareTransferParams(transferParams, origin)
    IN  IF p.ok
        THEN /\ pc' = "prepared"
             /\ error' = NoError
             /\ prepared' = p.value
             /\ prepared0' = p.value
        ELSE /\ pc' = "failed"
             /\ error' = p.error
             /\ UNCHANGED <<prepared, prepared0>>

\* SimpleXcm.composeTransfer up to its first suspension
ComposeTransfer ==
    /\ pc = "idle"
    /\ \E transferParams \in TransferParams :
          /\ request' = transferParams
          /\ IF ~transferBackend.ok
             THEN /\ pc' = "failed"
                  /\ error' = transferBackend.error
                  /\ UNCHANGED <<backend, prepared, prepared0, netLog>>
             ELSE /\ backend' = transferBackend.value
                  /\ IF transferParams.origin.kind = "name"
                     THEN LET call == locationToAccountIdCall(transferParams.origin)
                          IN  IF call.ok
                              THEN /\ pc' = "awaitAccount"
                                   /\ netLog' = Append(netLog, "locationToAccount")
                                   /\ UNCHANGED <<error, prepared, prepared0>>
                              ELSE /\ pc' = "failed"
                                   /\ error' = call.error
                                   /\ UNCHANGED <<prepared, prepared0, netLog>>
                     ELSE /\ FinishPrepare(transferParams, transferParams.origin)
                          /\ UNCHANGED netLog
    /\ UNCHANGED <<registry, chainInfo, xcmVersion, encoded, calls, answers,
                   lastResp, lastRes, tx, libVars>>

\* locationToAccountApi.convertLocation answers; prepareTransferParams goes on
AccountConverted ==
    /\ pc = "awaitAccount"
    /\ \E isErr \in BOOLEAN :
          IF isErr
          THEN /\ pc' = "failed"
               /\ error' = Cond("can't convert location to an account ID", chainInfo.name)
               /\ UNCHANGED <<prepared, prepared0>>
          ELSE FinishPrepare(request, [kind |-> "origin", signed |-> "0xacc"])
    /\ UNCHANGED <<registry, chainInfo, xcmVersion, backend, request, encoded,
                   calls, answers, lastResp, lastRes, netLog, tx, libVars>>

\* the transaction built from the prepared parameters as they are now
BuildTx(enc, prep) ==
    transferAssets(enc.destination, enc.beneficiary, prep.assets, prep.feeAssetIndex)

\* PalletXcmBackend.composeTransfer goes on after prepareTransferParams: it
\* converts destination and beneficiary, builds the first transaction to dry-run
\* and asks the estimator
BeginFeeLoop ==
    /\ pc = "prepared"
    /\ LET enc == [destination |-> convertLocationVersion(xcmVersion, prepared.destination),
                    beneficiary |-> convertLocationVersion(xcmVersion, prepared.beneficiary)]
       IN  /\ encoded' = enc
           /\ tx' = BuildTx(enc, prepared)
    /\ calls' = 1
    /\ netLog' = Append(netLog, "estimateExtrinsicFees")
    /\ pc' = "awaitEstimate"
    /\ UNCHANGED <<registry, chainInfo, xcmVersion, error, backend, request,
                   prepared, prepared0, answers, lastResp, lastRes, libVars>>

\* mutant: the amount replaces the fee asset's amount
AddToFee_Assign(prep, amount) ==
    [prep EXCEPT !.assets.assets[prep.feeAnyAssetRef].fun.amount = amount]

\* mutant: the amount goes to the first entry of the vector
AddToFee_FirstEntry(prep, amount) ==
    IF prep.assets.assets[1].fun.kind = "fungible"
    THEN [prep EXCEPT !.assets.assets[1].fun.amount = @ + amount]
    ELSE prep

\* feeAnyAssetRef.fun.fungible += amount
AddToFee(prep, amount) ==
    [prep EXCEPT !.assets.assets[prep.feeAnyAssetRef].fun.amount = @ + amount]

FeeFun(prep) == prep.assets.assets[prep.feeAnyAssetRef].fun

\* the body of the do-while loop after the estimator's answer, up to the next
\* suspension: the next estimator call, or the final dry run
EstimatorAnswers ==
    /\ pc = "awaitEstimate"
    /\ \E response \in EstimatorResponses :
          LET estimatedFees == tryEstimateExtrinsicXcmFees(response)
          IN  /\ lastResp' = response
              /\ lastRes' = estimatedFees
              /\ IF estimatedFees.kind = "throw"
                 THEN /\ pc' = "failed"
                      /\ error' = Cond("fee estimation failed", "")
                      /\ UNCHANGED <<prepared, answers, calls, netLog, tx>>
                 ELSE IF estimatedFees.kind = "error"
                 THEN /\ calls < MaxCalls
                      /\ prepared' = IF FeeFun(prepared).kind = "fungible"
                                     THEN AddToFee(prepared, estimatedFees.missingAmount)
                                     ELSE prepared
                      /\ answers' = Append(answers, [kind |-> "error", amount |-> estimatedFees.missingAmount])
                      /\ tx' = BuildTx(encoded, prepared')
                      /\ calls' = calls + 1
                      /\ netLog' = Append(netLog, "estimateExtrinsicFees")
                      /\ UNCHANGED <<pc, error>>
                 ELSE IF FeeFun(prepared).kind = "fungible"
                 THEN /\ prepared' = AddToFee(prepared, estimatedFees.value)
                      /\ answers' = Append(answers, [kind |-> "value", amount |-> estimatedFees.value])
                      /\ tx' = BuildTx(encoded, prepared')
                      /\ netLog' = Append(netLog, "dryRunExtrinsic")
                      /\ pc' = "awaitDryRun"
                      /\ UNCHANGED <<error, calls>>
                 ELSE /\ pc' = "failed"
                      /\ error' = Cond("TypeError", "")
                      /\ UNCHANGED <<prepared, answers, calls, netLog, tx>>
    /\ UNCHANGED <<registry, chainInfo, xcmVersion, backend, request, prepared0,
                   encoded, libVars>>

\* Estimator.dryRunExtrinsic answers: composeTransfer returns tx or rejects
DryRunAnswers ==
    /\ pc = "awaitDryRun"
    /\ \E ok \in BOOLEAN :
          IF ok THEN pc' = "done" /\ UNCHANGED error
          ELSE pc' = "failed" /\ error' = Cond("dry run failed", "")
    /\ UNCHANGED <<registry, chainInfo, xcmVersion, backend, request, prepared,
                   prepared0, encoded, calls, answers, lastResp, lastRes, netLog,
                   tx, libVars>>

\* one version the chain supports and one it does not
XcmVersionInputs == {3, 5}

\* SimpleXcm.enforceXcmVersion, callable whenever no other code of the
\* instance is running: before the call and at each of its suspensions
EnforceXcmVersion ==
    /\ \E version \in XcmVersionInputs :
          IF version > chainInfo.estimatorXcmVersion
          THEN UNCHANGED xcmVersion
          ELSE xcmVersion' = version
    /\ UNCHANGED <<registry, chainInfo, composeVars, libVars>>

Next == EnforceXcmVersion \/ ComposeTransfer \/ AccountConverted \/ BeginFeeLoop \/ EstimatorAnswers
          \/ DryRunAnswers

Spec == Init /\ [][Next]_vars

-----------------------------------------------------------------------------
(* Claims *)

OwnLocation == chainInfo.universalLocation

FeeAmount(prep) == FeeFun(prep).amount

RECURSIVE SumAmounts(_)
SumAmounts(as) ==
    IF as = <<>> THEN 0 ELSE Head(as).amount + SumAmounts(Tail(as))

AllShortfalls(as) == \A i \in 1..Len(as) : as[i].kind = "error"

\* the fee loop has been entered with a fungible fee asset
InFeeLoop == calls > 0 /\ FeeFun(prepared0).kind = "fungible"

\* C1: an estimator answering k calls with shortfalls s1..sk and the next with
\* a concrete value v is called exactly k+1 times; each shortfall is in the
\* fee amount of the transaction of the next call; the loop ends on v, the
\* fee amount being initial + s1 + ... + sk + v.
C1_FeeLoopAccounting ==
    InFeeLoop =>
        /\ FeeAmount(prepared) = FeeAmount(prepared0) + SumAmounts(answers)
        /\ tx.assets.assets[prepared0.feeAnyAssetRef].fun.amount
             = FeeAmount(prepared0) + SumAmounts(answers)
        /\ AllShortfalls(SubSeq(answers, 1, Len(answers) - 1))
        /\ (pc = "awaitEstimate")
             <=> (AllShortfalls(answers) /\ lastRes.kind # "throw"
                    /\ lastRes.kind # "value")
        /\ pc = "awaitEstimate" => calls = Len(answers) + 1
        /\ pc \in {"awaitDryRun", "done"} =>
              /\ Len(answers) >= 1
              /\ answers[Len(answers)].kind = "value"
              /\ calls = Len(answers)

\* shortfalls 3 and 2, then the concrete value 0: three calls, 5 added
C1_Witness ==
    /\ pc = "done"
    /\ answers = <<[kind |-> "error", amount |-> 3],
                   [kind |-> "error", amount |-> 2],
                   [kind |-> "value", amount |-> 0]>>
    /\ calls = 3
    /\ FeeAmount(prepared) = FeeAmount(prepared0) + 5
    /\ tx.assets.assets[prepared.feeAnyAssetRef].fun.amount = FeeAmount(prepared0) + 5

\* C2: the loop has a maximum-iteration bound: answered by a shortfall on
\* every call, composeTransfer stops with "fee estimation did not converge"
\* (here: it has stopped so by the time MaxCalls - 1 calls in a row were
\* answered by a shortfall, instead of calling the estimator once more).
C2_IterationBound ==
    (calls > 0 /\ AllShortfalls(answers) /\ Len(answers) >= MaxCalls - 1) =>
        (pc = "failed" /\ error.cond = "fee estimation did not converge")

AllTooExpensive(errors) == \A i \in 1..Len(errors) : errors[i].tooExpensive

\* C3: an aggregated failure is a recoverable shortfall, of the sum of the
\* missing amounts, only when every sub-error is a too-expensive shortfall;
\* with a sub-error of another kind the aggregate is rethrown unchanged.
C3_AggregateAllOrNothing ==
    (lastResp.kind = "FeeEstimationErrors" /\ Len(lastResp.errors) > 0) =>
        IF AllTooExpensive(lastResp.errors)
        THEN lastRes = [kind |-> "error", missingAmount |-> SumMissing(lastResp.errors)]
        ELSE lastRes = [kind |-> "throw", thrown |-> lastResp]

\* C4: a structurally malformed request fails before any network interaction
\* is issued, also when its origin is a name.
C4_ValidationBeforeNetwork ==
    (request # None /\ ~sanitizeTransferParams(request)) => netLog = <<>>

HasAlternatePallet == \E p \in chainInfo.pallets : palletApiTxName(p) = "xTokens"

\* C5: with transferAssets exposed the primary backend is used; without it,
\* and with the xTokens pallet declared, the alternate backend is used; "no
\* known transfer backend" occurs only when neither is available.
C5_BackendSelection ==
    pc # "idle" =>
        /\ chainInfo.hasTransferAssets => backend = "PalletXcmBackend"
        /\ (~chainInfo.hasTransferAssets /\ HasAlternatePallet) =>
              /\ backend = "XTokensBackend"
              /\ error.cond # "No known XCM transfer backend pallet is found"
        /\ error.cond = "No known XCM transfer backend pallet is found" =>
              (~chainInfo.hasTransferAssets /\ ~HasAlternatePallet)

\* the canonical vector of a request's assets, once resolved
CanonicalOf(transferParams) ==
    sortAndDeduplicateAssets(ResolveAssets(transferParams.assets).value)

\* prepareTransferParams has come as far as looking the fee asset up
ReachedFeeLookup ==
    /\ request # None
    /\ transferBackend.ok
    /\ pc \notin {"idle", "awaitAccount"}
    /\ error.cond \notin {"doesn't implement locationToAccount Runtime API",
                          "can't convert location to an account ID"}
    /\ request.origin.kind = "name" => resolveRelativeLocation(request.origin).ok
    /\ sanitizeTransferParams(request)
    /\ resolveRelativeLocation(request.destination).ok
    /\ resolveRelativeLocation(request.beneficiary).ok
    /\ resolveRelativeLocation(request.feeAssetId).ok
    /\ ResolveAssets(request.assets).ok
    /\ CanonicalOf(request).ok

\* C6: prepareTransferParams fails with "fee asset not part of the transfer"
\* whenever no entry of the canonical vector has the fee asset's id; when it
\* succeeds, feeAssetIndex is the position of the entry with that id and
\* feeAnyAssetRef is that entry.
C6_FeeAssetLookup ==
    /\ ReachedFeeLookup =>
          LET canonical == CanonicalOf(request).value
              feeId == resolveRelativeLocation(request.feeAssetId).value
          IN  IF \A i \in 1..Len(canonical) : canonical[i].id # feeId
              THEN /\ pc = "failed"
                   /\ error.cond = "the fee asset isn't part of the transfer"
                   /\ prepared0 = None
              ELSE /\ prepared0 # None
                   /\ prepared0.assets.assets = canonical
                   /\ prepared0.feeAssetId = feeId
                   /\ prepared0.feeAssetIndex \in 0..(Len(canonical) - 1)
                   /\ canonical[prepared0.feeAssetIndex + 1].id = feeId
                   /\ prepared0.feeAnyAssetRef = prepared0.feeAssetIndex + 1
    /\ prepared0 # None => ReachedFeeLookup

\* a request naming the fee asset first, found second in the canonical vector
C6_Witness ==
    /\ pc = "prepared"
    /\ Len(request.assets) = 2
    /\ request.assets[1].id = request.feeAssetId
    /\ Len(prepared.assets.assets) = 2
    /\ prepared.feeAssetIndex = 1
    /\ prepared.assets.assets[2].id = prepared.feeAssetId

\* C7: during the fee loop only the fungible amount of the fee-asset entry
\* changes in the prepared parameters; the vector stays sorted and the index
\* designates the fee asset at every iteration and in the final transaction.
C7_OnlyFeeAmountChanges ==
    prepared # None =>
        /\ [prepared EXCEPT !.assets.assets = <<>>]
             = [prepared0 EXCEPT !.assets.assets = <<>>]
        /\ Len(prepared.assets.assets) = Len(prepared0.assets.assets)
        /\ \A i \in 1..Len(prepared.assets.assets) :
              /\ prepared.assets.assets[i].id = prepared0.assets.assets[i].id
              /\ prepared.assets.assets[i].fun.kind = prepared0.assets.assets[i].fun.kind
              /\ i # prepared0.feeAssetIndex + 1 =>
                    prepared.assets.assets[i] = prepared0.assets.assets[i]
        /\ \A i, j \in 1..Len(prepared.assets.assets) :
              i < j => compareAnyAsset(prepared.assets.assets[i],
                                       prepared.assets.assets[j]) <= 0
        /\ prepared.assets.assets[prepared.feeAssetIndex + 1].id = prepared.feeAssetId
        /\ calls > 0 =>
              /\ tx.feeAssetItem = prepared0.feeAssetIndex
              /\ tx.assets = prepared.assets
              /\ tx.destination.location = prepared0.destination
              /\ tx.beneficiary.location = prepared0.beneficiary

\* a finished transfer of two assets whose fee amount the loop raised twice
C7_Witness ==
    /\ pc = "done"
    /\ Len(prepared.assets.assets) = 2
    /\ prepared.feeAssetIndex = 1
    /\ Len(answers) = 3
    /\ FeeAmount(prepared) > FeeAmount(prepared0) + 3
    /\ tx.assets = prepared.assets

\* C8: a name is looked up among the universal locations first and among the
\* relative ones only when no universal location is found; a name known as
\* neither fails with "unknown named location" naming the key.
C8_NameLookupOrder ==
    /\ (op = "resolveRelativeLocation" /\ args.kind = "name") =>
          LET U == registry.universal[args.name]
              R == registry.relative[args.name]
          IN  /\ U.found => result = Ok(locationRelativeToPrefix(U.value, OwnLocation))
              /\ (~U.found /\ R.found) => result = Ok(R.value)
              /\ (~U.found /\ ~R.found) =>
                    result = Err(Cond("unknown named location", args.name))
    /\ (op = "resolveUniversalLocation" /\ args.kind = "name") =>
          LET U == registry.universal[args.name]
              R == registry.relative[args.name]
          IN  /\ U.found => result = Ok(U.value)
              /\ (~U.found /\ R.found) =>
                    LET lifted == relativeLocationToUniversal(R.value, OwnLocation)
                    IN  IF lifted.ok THEN result = lifted ELSE ~result.ok
              /\ (~U.found /\ ~R.found) =>
                    result = Err(Cond("unknown named location", args.name))

\* a name known both ways, whose two readings differ, resolved the universal way
C8_Witness ==
    /\ op = "resolveRelativeLocation"
    /\ args = NameLookup("Acala")
    /\ registry.universal["Acala"].found
    /\ registry.relative["Acala"].found
    /\ result.ok
    /\ result.value # registry.relative["Acala"].value
    /\ result.value.parents > 0

\* ---- arithmetic on digit sequences, for stating C9 ----

Reverse(s) == [k \in 1..Len(s) |-> s[Len(s) + 1 - k]]

RECURSIVE AddLittleEndian(_, _, _)
AddLittleEndian(a, b, carry) ==
    IF a = <<>> /\ b = <<>> THEN (IF carry = 0 THEN <<>> ELSE <<carry>>)
    ELSE LET x == (IF a = <<>> THEN 0 ELSE Head(a))
                  + (IF b = <<>> THEN 0 ELSE Head(b)) + carry
         IN  <<x % 10>> \o AddLittleEndian(IF a = <<>> THEN <<>> ELSE Tail(a),
                                            IF b = <<>> THEN <<>> ELSE Tail(b),
                                            x \div 10)

\* a + b
BigAdd(a, b) == Reverse(AddLittleEndian(Reverse(a), Reverse(b), 0))

\* a * 10^k
BigTimesPow10(a, k) == IF a = <<0>> THEN a ELSE a \o [i \in 1..k |-> 0]

\* the natural number a string of digits denotes
RECURSIVE NatOf(_)
NatOf(s) ==
    IF s = <<>> THEN <<0>>
    ELSE BigAdd(BigTimesPow10(NatOf(SubSeq(s, 1, Len(s) - 1)), 1),
                <<DigitValue(s[Len(s)])>>)

AllDigits(s) == \A k \in 1..Len(s) : s[k] \in DigitChars

\* an integer part: digits, no leading zero unless it is "0"
IsIntegerPart(s) == Len(s) >= 1 /\ AllDigits(s) /\ (s[1] = "0" => Len(s) = 1)

\* the readings <<I, D>> of s as I or as I.D
DecimalForms(s) ==
    (IF IsIntegerPart(s) THEN {<<s, <<>>>>} ELSE {})
      \cup {<<SubSeq(s, 1, i - 1), SubSeq(s, i + 1, Len(s))>> :
               i \in {j \in 1..Len(s) :
                        /\ s[j] = "."
                        /\ IsIntegerPart(SubSeq(s, 1, j - 1))
                        /\ j < Len(s)
                        /\ AllDigits(SubSeq(s, j + 1, Len(s)))}}

AcceptedDecimals(d) == d.int /\ d.num >= 0 /\ d.num <= 38

NoTwoInstancesOfOneId(list) ==
    \A i, j \in 1..Len(list) :
        (/\ list[i].fun.kind = "nonFungible"
         /\ list[j].fun.kind = "nonFungible"
         /\ list[i].id = list[j].id) => list[i].fun.instance = list[j].fun.instance

C11_OneVersionPerTransaction ==
    tx.kind = "transferAssets" =>
        /\ tx.destination.version = tx.assets.version
        /\ tx.beneficiary.version = tx.assets.version

=============================================================================
